---- MODULE Spec2Model ----
(***************************************************************************)
(* A model of apriltag_mit/src/Quad.cc: the backtracking Quad::Search over *)
(* the segment graph, and the decode pipeline ToTagCode = MakeGrayModel    *)
(* followed by DecodePayload.                                              *)
(*                                                                         *)
(* Numbers.  Coordinates are exact rationals kept as scaled integers, so   *)
(* single-precision rounding is not modelled.  Angles are counted in units *)
(* of pi/4: every segment of the model is axis-aligned, and two            *)
(* consecutive corners of a walk always lie on one segment's line, so      *)
(* every atan2 the search takes is an exact multiple of pi/2.  Lengths are *)
(* compared through their squares.                                         *)
(***************************************************************************)
EXTENDS Integers, Sequences, FiniteSets, TLC

VARIABLES
    \* ---- Quad::Search ----
    segs,       \* the segment arena: id -> [x0, y0, x1, y1]
    children,   \* Segment::children: id -> sequence of segment ids
    path,       \* one path buffer per search: start id -> [0..4 -> id or 0]
    quads,      \* one output list per search: start id -> sequence of Quads
    stack,      \* the recursion of each search: sequence of call frames
    ev,         \* history: the last terminal-depth evaluation of each search
    touched,    \* history: the path indices each search has read or written
    sched,      \* "seq": searches run one after another; "par": interleaved
    \* ---- Quad::ToTagCode ----
    corners,    \* Quad::p, in half pixels
    image,      \* FloatImage: [width, height, hot, fg, bg]
    thr,        \* the fitted model's threshold surface (an input)
    dimension_bits,
    black_border,
    pc,         \* where ToTagCode stands: "gray", "fit", "decode", "done"
    xb, yb,     \* the loop variables of the running scan
    model,      \* GrayModel: [obs, fits, calls], calls a history
    code,       \* DecodePayload's accumulator
    ret         \* ToTagCode's return value (-1 while running)

svars == <<segs, children, path, quads, stack, ev, touched, sched>>
dvars == <<corners, image, thr, dimension_bits, black_border, pc, xb, yb,
           model, code, ret>>
vars == <<svars, dvars>>

----------------------------------------------------------------------------
(* Bounds of the model *)

\* segments in the arena; 1..4 form the ring 1 -> 2 -> 3 -> 4 -> 1
NSeg == 4
\* child links added to the ring (self-loops, back and skip links, repeats)
MaxExtra == 2

(* Program constants *)

\* if (depth == 4)
TerminalDepth == 4
\* Quad::kMinEdgeLength and Quad::kMaxQuadAspectRatio are set in Quad.h,
\* which is not among the sources; the values are those of the AprilTags
\* library this code derives from.
kMinEdgeLength == 6
kMaxQuadAspectRatio == 32

Segs == 1..NSeg
PathIdx == 0..TerminalDepth

----------------------------------------------------------------------------
(* Geometry utilities (MathUtil, Line2D, Segment: external collaborators) *)

Abs(x) == IF x < 0 THEN -x ELSE x

\* std::atan2(dy, dx) in units of pi/4, for axis-aligned and diagonal
\* vectors; atan2(0, 0) = 0.
Atan2(dy, dx) ==
    CASE dy = 0 /\ dx >= 0 -> 0
      [] dy = 0 /\ dx < 0  -> 4
      [] dx = 0 /\ dy > 0  -> 2
      [] dx = 0 /\ dy < 0  -> -2
      [] dx > 0 /\ dy > 0  -> 1
      [] dx < 0 /\ dy > 0  -> 3
      [] dx > 0 /\ dy < 0  -> -1
      [] OTHER             -> -3

\* MathUtil::mod2pi: the angle normalized into (-pi, pi], in units of pi/4.
mod2pi(v) ==
    LET r == v % 8
    IN  IF r > 4 THEN r - 8 ELSE r

\* MathUtil::Distance2D, squared.
Distance2DSq(a, b) ==
    (a[1] - b[1]) * (a[1] - b[1]) + (a[2] - b[2]) * (a[2] - b[2])

\* Segment::theta(): the orientation of (x0,y0) -> (x1,y1), units of pi/4.
theta(s) == Atan2(segs[s].y1 - segs[s].y0, segs[s].x1 - segs[s].x0)

\* Segment::length(); exact for the axis-aligned segments of the model.
length(s) == Abs(segs[s].x1 - segs[s].x0) + Abs(segs[s].y1 - segs[s].y0)

\* Whether the infinite lines through two segments meet in one point.
Parallel(a, b) ==
    (a.x1 - a.x0) * (b.y1 - b.y0) - (a.y1 - a.y0) * (b.x1 - b.x0) = 0

\* Line2D::IntersectionWidth: the intersection of the two infinite lines, or
\* the sentinel (-1, -1) when they are parallel.  The divisions are exact for
\* axis-aligned lines.
IntersectionWidth(a, b) ==
    LET dax == a.x1 - a.x0
        day == a.y1 - a.y0
        dbx == b.x1 - b.x0
        dby == b.y1 - b.y0
        det == dax * dby - day * dbx
        num == (b.x0 - a.x0) * dby - (b.y0 - a.y0) * dbx
    IN  IF det = 0
        THEN <<-1, -1>>
        ELSE <<(a.x0 * det + num * dax) \div det,
               (a.y0 * det + num * day) \div det>>

----------------------------------------------------------------------------
(* Quad::Search, terminal depth *)

\* p[i] = line_a.IntersectionWidth(line_b) for path[i], path[i + 1]
Corners(pth) ==
    [i \in 0..3 |-> IntersectionWidth(segs[pth[i]], segs[pth[i + 1]])]

\* calc_perimeter += path[i]->length(), i = 0..3
CalcPerimeter(pth) ==
    length(pth[0]) + length(pth[1]) + length(pth[2]) + length(pth[3])

\* if (p[i].first == -1) bad = true
NoIntersection(p) == \E i \in 0..3 : p[i][1] = -1

\* ttheta: the sum of the four normalized turning angles, units of pi/4
Ttheta(p) ==
    LET t0 == Atan2(p[1][2] - p[0][2], p[1][1] - p[0][1])
        t1 == Atan2(p[2][2] - p[1][2], p[2][1] - p[1][1])
        t2 == Atan2(p[3][2] - p[2][2], p[3][1] - p[2][1])
        t3 == Atan2(p[0][2] - p[3][2], p[0][1] - p[3][1])
    IN  mod2pi(t1 - t0) + mod2pi(t2 - t1) + mod2pi(t3 - t2) + mod2pi(t0 - t3)

\* if (ttheta < -7 || ttheta > -5) bad = true, with ttheta = u * pi/4 and
\* pi taken as 355/113
WindingBad(p) ==
    LET u == Ttheta(p)
    IN  u * 355 < -7 * 4 * 113 \/ u * 355 > -5 * 4 * 113

EdgesSq(p) ==
    <<Distance2DSq(p[0], p[1]), Distance2DSq(p[1], p[2]),
      Distance2DSq(p[2], p[3]), Distance2DSq(p[3], p[0])>>

DiagonalsSq(p) == <<Distance2DSq(p[0], p[2]), Distance2DSq(p[1], p[3])>>

MaxOf(S) == CHOOSE x \in S : \A y \in S : y <= x
MinOf(S) == CHOOSE x \in S : \A y \in S : x <= y

\* d0..d5 < Quad::kMinEdgeLength
SizeBad(p) ==
    LET k2 == kMinEdgeLength * kMinEdgeLength
    IN  \/ \E i \in 1..4 : EdgesSq(p)[i] < k2
        \/ \E i \in 1..2 : DiagonalsSq(p)[i] < k2

\* Mutant: the two sides of the aspect comparison exchanged.
AspectBadSwapped(p) ==
    LET e == {EdgesSq(p)[i] : i \in 1..4}
    IN  MinOf(e) > MaxOf(e) * kMaxQuadAspectRatio * kMaxQuadAspectRatio

\* dmax > dmin * Quad::kMaxQuadAspectRatio
AspectBad(p) ==
    LET e == {EdgesSq(p)[i] : i \in 1..4}
    IN  MaxOf(e) > MinOf(e) * kMaxQuadAspectRatio * kMaxQuadAspectRatio

\* The flag bad after the three blocks of tests.
Bad(pth) ==
    LET p == Corners(pth)
        bad1 == NoIntersection(p)
        bad2 == bad1 \/ WindingBad(p)
        bad3 == bad2 \/ SizeBad(p) \/ AspectBad(p)
    IN  bad3

\* Quad quad(pcv); quad.segments = path; quad.obs_perimeter = calc_perimeter
MakeQuad(pth) ==
    [p |-> Corners(pth), segments |-> pth, obs_perimeter |-> CalcPerimeter(pth)]

\* The output list after a call at depth 4.
TerminalQuads(pth, out) ==
    IF pth[TerminalDepth] = pth[0] /\ ~Bad(pth)
    THEN Append(out, MakeQuad(pth))
    ELSE out

----------------------------------------------------------------------------
(* Quad::Search, the recursion *)

\* Mutant: the symmetry-breaking test left out.
PrunedNever(child, first) == FALSE

\* if (child.theta() > path[0]->theta()) continue
Pruned(child, first) == theta(child) > theta(first)

\* Mutant: the child written one entry too low.
PushChildAtDepth(pth, depth, child) == [pth EXCEPT ![depth] = child]

\* path[depth + 1] = &child
PushChild(pth, depth, child) == [pth EXCEPT ![depth + 1] = child]

\* Mutant: one path buffer shared by all searches.
PathOfShared(s) == 1

\* The path buffer a search works on: the one its caller handed it.
PathOf(s) == s

\* The searches of one caller thread run one after another.
CanRun(s) == sched = "par" \/ \A t \in Segs : t < s => stack[t] = <<>>

Top(s) == stack[s][Len(stack[s])]
Pop(s) == SubSeq(stack[s], 1, Len(stack[s]) - 1)
Running(s) == stack[s] # <<>> /\ CanRun(s)
Frame(parent, depth, pth) ==
    [parent |-> parent, depth |-> depth, i |-> 1,
     pre |-> [j \in 0..depth |-> pth[j]]]

\* Where the top call of search s stands.
AtTerminal(s) == Running(s) /\ Top(s).depth = TerminalDepth
AtChild(s) ==
    /\ Running(s)
    /\ Top(s).depth # TerminalDepth
    /\ Top(s).i <= Len(children[Top(s).parent])
AtLoopEnd(s) ==
    /\ Running(s)
    /\ Top(s).depth # TerminalDepth
    /\ Top(s).i > Len(children[Top(s).parent])

\* A call at terminal depth: lines 109-194.
Terminal(s) ==
    /\ AtTerminal(s)
    /\ LET pth == path[PathOf(s)]
           closed == pth[TerminalDepth] = pth[0]
       IN  /\ quads' = [quads EXCEPT ![s] = TerminalQuads(pth, @)]
           /\ ev' = [ev EXCEPT ![s] =
                       [n |-> 1, depth |-> Top(s).depth, path |-> pth,
                        closed |-> closed,
                        appended |-> Len(TerminalQuads(pth, quads[s]))
                                        > Len(quads[s])]]
           /\ touched' = [touched EXCEPT ![s] =
                            @ \cup (IF closed THEN 0..4 ELSE {0, 4})]
    /\ stack' = [stack EXCEPT ![s] = Pop(s)]
    /\ UNCHANGED <<segs, children, path, sched>>
    /\ UNCHANGED dvars

\* One pass of the loop over parent.children whose child is skipped.
Skip(s) ==
    /\ AtChild(s)
    /\ Pruned(children[Top(s).parent][Top(s).i], path[PathOf(s)][0])
    /\ stack' = [stack EXCEPT ![s][Len(stack[s])].i = @ + 1]
    /\ touched' = [touched EXCEPT ![s] = @ \cup {0}]
    /\ UNCHANGED <<segs, children, path, quads, ev, sched>>
    /\ UNCHANGED dvars

\* One pass of the loop that pushes the child and calls Search on it.
Recurse(s) ==
    /\ AtChild(s)
    /\ LET f == Top(s)
           child == children[f.parent][f.i]
           pth == PushChild(path[PathOf(s)], f.depth, child)
       IN  /\ ~Pruned(child, path[PathOf(s)][0])
           /\ path' = [path EXCEPT ![PathOf(s)] = pth]
           /\ stack' = [stack EXCEPT ![s] =
                          Append([@ EXCEPT ![Len(@)].i = f.i + 1],
                                 Frame(child, f.depth + 1, pth))]
           /\ touched' = [touched EXCEPT ![s] = @ \cup {0, f.depth + 1}]
    /\ UNCHANGED <<segs, children, quads, ev, sched>>
    /\ UNCHANGED dvars

\* The loop is over: the call returns.
Return(s) ==
    /\ AtLoopEnd(s)
    /\ stack' = [stack EXCEPT ![s] = Pop(s)]
    /\ UNCHANGED <<segs, children, path, quads, ev, touched, sched>>
    /\ UNCHANGED dvars

\* Search(path, parent, depth, quads), run to completion: the path buffer and
\* the output list it leaves.
RECURSIVE SearchRec(_, _, _, _), SearchLoop(_, _, _, _, _)
SearchRec(pth, parent, depth, out) ==
    IF depth = TerminalDepth
    THEN [path |-> pth, quads |-> TerminalQuads(pth, out)]
    ELSE SearchLoop(pth, parent, depth, out, 1)
SearchLoop(pth, parent, depth, out, i) ==
    IF i > Len(children[parent])
    THEN [path |-> pth, quads |-> out]
    ELSE LET child == children[parent][i]
         IN  IF Pruned(child, pth[0])
             THEN SearchLoop(pth, parent, depth, out, i + 1)
             ELSE LET r == SearchRec(PushChild(pth, depth, child), child,
                                     depth + 1, out)
                  IN  SearchLoop(r.path, parent, depth, r.quads, i + 1)

\* The caller's buffer for a search from s: five entries, path[0] = s.
StartPath(s) == [j \in PathIdx |-> IF j = 0 THEN s ELSE 0]

----------------------------------------------------------------------------
(* The segment graphs and the geometry the searches are run on *)

HSeg(y, dir, len) ==
    IF dir = 1 THEN [x0 |-> 0, y0 |-> y, x1 |-> len, y1 |-> y]
               ELSE [x0 |-> len, y0 |-> y, x1 |-> 0, y1 |-> y]
VSeg(x, dir, len) ==
    IF dir = 1 THEN [x0 |-> x, y0 |-> 0, x1 |-> x, y1 |-> len]
               ELSE [x0 |-> x, y0 |-> len, x1 |-> x, y1 |-> 0]

Dirs == {1, -1}

\* The lines segment i may lie on.  Heights 0 and 6 against widths 1, 8, 9,
\* 184, 192 and 193 give quads at and on both sides of the two thresholds,
\* both windings, corners on the column x = -1, and parallel neighbours.
SegChoices(i) ==
    CASE i = 1 -> {HSeg(y, d, 3) : y \in {0, 6}, d \in Dirs}
      [] i = 2 -> {VSeg(x, d, 4) : x \in {-1, 0, 192}, d \in Dirs}
                    \cup {HSeg(6, d, 4) : d \in Dirs}
      [] i = 3 -> {HSeg(y, d, 5) : y \in {0, 6}, d \in Dirs}
      [] OTHER -> {VSeg(x, d, 6) : x \in {-1, 8, 192, 193}, d \in Dirs}

\* A square of side 6 by 8 wound the accepted way, its four orientation
\* angles distinct.
SquareSegs ==
    [i \in Segs |->
        CASE i = 1 -> HSeg(0, 1, 3)
          [] i = 2 -> VSeg(0, 1, 4)
          [] i = 3 -> HSeg(6, -1, 5)
          [] i = 4 -> VSeg(8, -1, 6)
          [] OTHER -> HSeg(3, 1, 2)]

\* The same square with each segment's direction free.
DirectedSquares ==
    {[i \in Segs |->
        CASE i = 1 -> HSeg(0, d[1], 3)
          [] i = 2 -> VSeg(0, d[2], 4)
          [] i = 3 -> HSeg(6, d[3], 5)
          [] i = 4 -> VSeg(8, d[4], 6)
          [] OTHER -> HSeg(3, 1, 2)] : d \in [1..4 -> Dirs]}

RingNext(i) == (i % 4) + 1
Ring(i) == IF i <= 4 THEN <<RingNext(i)>> ELSE <<>>

RECURSIVE KSubsets(_, _)
KSubsets(S, k) ==
    IF k = 0 THEN {{}}
    ELSE LET prev == KSubsets(S, k - 1)
         IN  prev \cup {t \cup {e} : t \in prev, e \in S}

RECURSIVE SortedSeq(_)
SortedSeq(S) ==
    IF S = {} THEN <<>>
    ELSE LET m == MinOf(S) IN <<m>> \o SortedSeq(S \ {m})

\* The links that may be added to the ring: a child collection names no
\* segment twice.
ExtraLinks == {e \in Segs \X Segs : e[1] > 4 \/ e[2] # RingNext(e[1])}

\* The ring link first, then the extra links in ascending order.
ChildLists(extra) ==
    [i \in Segs |-> Ring(i) \o SortedSeq({j \in Segs : <<i, j>> \in extra})]

InitSearch(sg, ch, sc) ==
    /\ segs = sg
    /\ children = ch
    /\ sched = sc
    /\ path = [s \in Segs |-> StartPath(s)]
    /\ quads = [s \in Segs |-> <<>>]
    /\ stack = [s \in Segs |-> <<Frame(s, 0, StartPath(s))>>]
    /\ ev = [s \in Segs |->
               [n |-> 0, depth |-> TerminalDepth, path |-> StartPath(s),
                closed |-> FALSE, appended |-> FALSE]]
    /\ touched = [s \in Segs |-> {0}]

\* No decode is running.
DecodeIdle ==
    /\ corners = <<>>
    /\ image = [width |-> 0, height |-> 0, hot |-> <<0, 0>>, fg |-> 0, bg |-> 0]
    /\ thr = "low"
    /\ dimension_bits = 0
    /\ black_border = 0
    /\ pc = "idle"
    /\ xb = 0
    /\ yb = 0
    /\ model = [obs |-> <<>>, fits |-> 0, calls |-> <<>>]
    /\ code = 0
    /\ ret = -1

\* The ring under every choice of lines, or the square under every choice of
\* extra links.
Init ==
    /\ DecodeIdle
    /\ \/ \E c \in SegChoices(1) \X SegChoices(2) \X SegChoices(3)
                     \X SegChoices(4) :
            InitSearch([i \in Segs |-> IF i <= 4 THEN c[i] ELSE SquareSegs[i]],
                       ChildLists({}), "seq")
       \/ \E extra \in KSubsets(ExtraLinks, MaxExtra) :
            InitSearch(SquareSegs, ChildLists(extra), "seq")

\* Interleaved searches: over the ring with every choice of directions, and
\* over the square with one link added.
InitPar ==
    /\ DecodeIdle
    /\ \/ \E sg \in DirectedSquares : InitSearch(sg, ChildLists({}), "par")
       \/ \E e \in ExtraLinks : InitSearch(SquareSegs, ChildLists({e}), "par")

Next == \E s \in Segs : Terminal(s) \/ Skip(s) \/ Recurse(s) \/ Return(s)

Spec == Init /\ [][Next]_vars
SpecPar == InitPar /\ [][Next]_vars

AllDone == \A s \in Segs : stack[s] = <<>>

----------------------------------------------------------------------------
(* Properties of Quad::Search *)

\* Every Quad of every output list, as <<start, position>>.
Emitted == UNION {{<<s, k>> : k \in 1..Len(quads[s])} : s \in Segs}
QuadAt(sk) == quads[sk[1]][sk[2]]

\* The walk around the ring that starts at segment k.
RingPath(k) == [j \in PathIdx |-> ((k + j - 1) % 4) + 1]
CycleQuads == {sk \in Emitted : \E k \in 1..4 : QuadAt(sk).segments = RingPath(k)}
CyclePasses == \A k \in 1..4 : ~Bad(RingPath(k))
LargestTheta == {k \in 1..4 : \A j \in 1..4 : theta(j) <= theta(k)}

\* ttheta in [-7, -5] radians, for ttheta = u * pi/4 and pi = 355/113
InBand(u) == -7 * 4 * 113 <= u * 355 /\ u * 355 <= -5 * 4 * 113

\* The acceptance tests, stated on a closed walk's four corners.
PassesAllTests(pth, p) ==
    /\ pth[4] = pth[0]
    /\ \A i \in 0..3 : ~Parallel(segs[pth[i]], segs[pth[i + 1]])
    /\ InBand(Ttheta(p))
    /\ \A i \in 0..3, j \in 0..3 :
         i # j => Distance2DSq(p[i], p[j]) >= kMinEdgeLength * kMinEdgeLength
    /\ \A i \in 0..3, j \in 0..3 :
         Distance2DSq(p[i], p[(i + 1) % 4])
           <= Distance2DSq(p[j], p[(j + 1) % 4])
                * kMaxQuadAspectRatio * kMaxQuadAspectRatio

C2_AcceptedQuadsPassAllTests ==
    /\ \A sk \in Emitted : PassesAllTests(QuadAt(sk).segments, QuadAt(sk).p)
    /\ \A s \in Segs :
         (ev[s].n = 1 /\ ev[s].appended)
            => PassesAllTests(ev[s].path, Corners(ev[s].path))

C2_Witness ==
    \E s \in Segs, t \in Segs :
        /\ ev[s].n = 1 /\ ev[s].appended
        /\ ev[t].n = 1 /\ ev[t].closed /\ ~ev[t].appended

\* C3: a terminal evaluation of a closed walk whose four line pairs all
\* intersect, whose winding sum is in the band and whose lengths and edge
\* ratio are within the thresholds appends the Quad of the four intersection
\* points, whatever their coordinates.
C3_AcceptanceComplete ==
    \A s \in Segs :
        (ev[s].n = 1 /\ PassesAllTests(ev[s].path, Corners(ev[s].path)))
            => /\ ev[s].appended
               /\ quads[s] # <<>>
               /\ quads[s][Len(quads[s])].p = Corners(ev[s].path)

\* C8: every Quad in an output list stores exactly four bounding segments,
\* path[0..3] each once, and its observed perimeter is the sum of the lengths
\* of the segments it stores.
RECURSIVE SumLengths(_, _)
SumLengths(sg, I) ==
    IF I = {} THEN 0
    ELSE LET i == MinOf(I) IN length(sg[i]) + SumLengths(sg, I \ {i})

C8_FourSegmentsAndPerimeter ==
    \A sk \in Emitted :
        LET q == QuadAt(sk)
        IN  /\ Cardinality(DOMAIN q.segments) = 4
            /\ q.obs_perimeter = SumLengths(q.segments, DOMAIN q.segments)

\* C9: a child is pushed only if its orientation angle is at most that of
\* path[0], and the start segment of every Quad in an output list has the
\* minimal orientation angle among the four segments of its walk.
C9_StartHasMinimalTheta ==
    /\ \A s \in Segs, j \in 1..TerminalDepth :
         path[s][j] # 0 => theta(path[s][j]) <= theta(path[s][0])
    /\ \A sk \in Emitted, i \in 0..3 :
         theta(QuadAt(sk).segments[0]) <= theta(QuadAt(sk).segments[i])

\* C7: whichever way the searches interleave, a step of one search leaves the
\* segment graph and every other search's path buffer and output list alone,
\* and once all are over each output list is the one the search produces
\* when run alone from start to end.
C7_InterleavedSearchesIndependent ==
    [][/\ segs' = segs
       /\ children' = children
       /\ \A s \in Segs, t \in Segs :
            (stack'[s] # stack[s] /\ t # s)
               => (path'[t] = path[t] /\ quads'[t] = quads[t])
       /\ AllDone' =>
            \A s \in Segs :
               quads'[s] = SearchRec(StartPath(s), s, 0, <<>>).quads]_vars

C7_Witness ==
    /\ sched = "par"
    /\ \E s \in Segs, t \in Segs :
         /\ s # t
         /\ Len(stack[s]) >= 2 /\ Len(stack[t]) >= 2
         /\ quads[s] # <<>>
         /\ path[t][2] # 0

\* C10: the recursion is never deeper than 4, only path[0..4] is read or
\* written, a call at depth d leaves path[0..d] as it found them, the
\* geometric tests run at depth 4 only, and every search ends.
DepthBounded ==
    \A s \in Segs :
        /\ Len(stack[s]) <= 5
        /\ \A k \in 1..Len(stack[s]) :
             /\ stack[s][k].depth = k - 1
             /\ stack[s][k].depth <= 4
             /\ \A j \in 0..stack[s][k].depth :
                  path[s][j] = stack[s][k].pre[j]
        /\ touched[s] \subseteq 0..4
        /\ ev[s].depth = 4

\* The steps a call at depth d can take at most, on a graph whose child
\* lists have at most m entries: its return, and per child the loop pass and
\* the call it makes.
RECURSIVE CallSteps(_, _)
CallSteps(d, m) ==
    IF d >= TerminalDepth THEN 1 ELSE 1 + m * (1 + CallSteps(d + 1, m))

MaxChildren == MaxOf({Len(children[i]) : i \in Segs})

\* The steps the open calls of search s can still take.
RECURSIVE StepsLeft(_, _)
StepsLeft(s, k) ==
    IF k = 0 THEN 0
    ELSE LET f == stack[s][k]
         IN  StepsLeft(s, k - 1)
             + (IF f.depth >= TerminalDepth THEN 1
                ELSE 1 + (Len(children[f.parent]) + 1 - f.i)
                           * (1 + CallSteps(f.depth + 1, MaxChildren)))

RECURSIVE Variant(_)
Variant(n) == IF n = 0 THEN 0 ELSE StepsLeft(n, Len(stack[n])) + Variant(n - 1)

\* Search s is at a call that can take its next step.
CanStep(s) == AtTerminal(s) \/ AtChild(s) \/ AtLoopEnd(s)

\* Termination is stated through the variant: every step lowers a natural
\* number, and a search that is not over can take a step.
C10_SearchTerminatesWithinDepth4 ==
    /\ []DepthBounded
    /\ [](AllDone \/ \E s \in Segs : CanStep(s))
    /\ [][Variant(NSeg)' < Variant(NSeg)]_vars

C10_Witness ==
    /\ AllDone
    /\ \E i \in Segs : \E k \in 1..Len(children[i]) : children[i][k] = i
    /\ \E i \in Segs : children[i] # <<>> /\ children[i][1] # i
                          /\ children[children[i][1]] # <<>>
    /\ \E s \in Segs : ev[s].n = 1 /\ touched[s] = 0..4

----------------------------------------------------------------------------
(* Quad::ToTagCode: MakeGrayModel, then DecodePayload *)

\* payload bits along one side
MaxDim == 2
\* width of the black border, in cells
MaxBorder == 1
\* width and height of the image, in pixels
ImgSize == 4
\* width of code_t, in bits (scaled down)
CodeBits == 4

RECURSIVE Pow2(_)
Pow2(n) == IF n = 0 THEN 1 ELSE 2 * Pow2(n - 1)

\* The conversion of a floating value a / b (b > 0) to int: toward zero.
TruncToInt(a, b) == IF a >= 0 THEN a \div b ELSE -((-a) \div b)

\* Quad::Interpolate.  The argument is u.x / u.den, u.y / u.den in [-1, 1];
\* the corners are in half pixels; the result is in pixels, as the fractions
\* x / den and y / den with den = 8 * u.den^2.
Interpolate(q, u) ==
    LET kxn == u.x + u.den        \* kx = kxn / (2 * u.den)
        kyn == u.y + u.den        \* ky = kyn / (2 * u.den)
        d2 == 2 * u.den
        p0 == q[0]
        p3 == q[3]
        p01 == <<q[1][1] - q[0][1], q[1][2] - q[0][2]>>
        p32 == <<q[2][1] - q[3][1], q[2][2] - q[3][2]>>
        r1 == <<p0[1] * d2 + p01[1] * kxn, p0[2] * d2 + p01[2] * kxn>>
        r2 == <<p3[1] * d2 + p32[1] * kxn, p3[2] * d2 + p32[2] * kxn>>
    IN  [x |-> r1[1] * d2 + (r2[1] - r1[1]) * kyn,
         y |-> r1[2] * d2 + (r2[2] - r1[2]) * kyn,
         den |-> 2 * d2 * d2]

\* Quad::Interpolate01: Interpolate(2 * p - (1, 1)), p in [0, 1].
Interpolate01(q, pn) ==
    Interpolate(q, [x |-> 2 * pn.x - pn.den, y |-> 2 * pn.y - pn.den,
                    den |-> pn.den])

\* The center of cell c of a grid of lb cells: (c + 0.5f) / lb.
CellCenter(cx, cy, lb) == [x |-> 2 * cx + 1, y |-> 2 * cy + 1, den |-> 2 * lb]

\* int xi = pi.x + 0.5; int yi = pi.y + 0.5;
SamplePixel(q, pn) ==
    LET pi == Interpolate01(q, pn)
    IN  <<TruncToInt(2 * pi.x + pi.den, 2 * pi.den),
          TruncToInt(2 * pi.y + pi.den, 2 * pi.den)>>

\* IsInsideImage(xi, yi, image)
IsInsideImage(px, img) ==
    /\ 0 <= px[1] /\ px[1] < img.width
    /\ 0 <= px[2] /\ px[2] < img.height

\* FloatImage::get(xi, yi)
ImageGet(img, px) == IF px = img.hot THEN img.fg ELSE img.bg

\* The ring predicates of the (lb + 2)^2 scan of MakeGrayModel.
IsInsideInnerBorder(x, y, lb) == x > 0 /\ x < lb - 1 /\ y > 0 /\ y < lb - 1
IsOnOuterBorder(x, y, lb) == x = -1 \/ x = lb \/ y = -1 \/ y = lb
IsOnInnerBorder(x, y, lb) == x = 0 \/ x = lb - 1 \/ y = 0 \/ y = lb - 1

\* GrayModel: the observations, the number of fits, and the calls in order.
AddWhiteObs(m, x, y, v) ==
    [m EXCEPT !.obs = Append(@, [cls |-> "white", x |-> x, y |-> y, v |-> v]),
              !.calls = Append(@, "white")]
AddBlackObs(m, x, y, v) ==
    [m EXCEPT !.obs = Append(@, [cls |-> "black", x |-> x, y |-> y, v |-> v]),
              !.calls = Append(@, "black")]
Fit(m) == [m EXCEPT !.fits = @ + 1, !.calls = Append(@, "fit")]
Queried(m) == [m EXCEPT !.calls = Append(@, "threshold")]

\* GrayModel::CalcThreshold(xn, yn): the fitted surface, here one of three.
CalcThreshold(surface, pn) ==
    CASE surface = "low"  -> 0
      [] surface = "high" -> 1
      [] OTHER            -> IF 2 * pn.x < pn.den THEN 0 ELSE 1

\* const int lb = 2 * black_border + dimension_bits
LengthBits == 2 * black_border + dimension_bits

\* Mutant: the bit set before the shift.
ShiftInAfterOr(c, v, threshold) ==
    (2 * (IF v > threshold /\ c % 2 = 0 THEN c + 1 ELSE c)) % Pow2(CodeBits)

\* code = code << 1; if (v > threshold) code |= 1;
ShiftIn(c, v, threshold) ==
    LET shifted == (2 * c) % Pow2(CodeBits)
    IN  IF v > threshold THEN shifted + 1 ELSE shifted

\* The scan of MakeGrayModel moves on: ++xb, and ++yb at the end of a row.
GrayAdvance ==
    IF xb < LengthBits
    THEN xb' = xb + 1 /\ yb' = yb
    ELSE xb' = -1 /\ yb' = yb + 1

GrayCell == pc = "gray" /\ yb <= LengthBits
GrayPn == CellCenter(xb, yb, LengthBits)
GrayPx == SamplePixel(corners, GrayPn)

\* if (IsInsideInnerBorder(xb, yb, lb)) continue;
GraySkipInner ==
    /\ GrayCell
    /\ IsInsideInnerBorder(xb, yb, LengthBits)
    /\ GrayAdvance
    /\ UNCHANGED <<corners, image, thr, dimension_bits, black_border, pc,
                   model, code, ret>>
    /\ UNCHANGED svars

\* if (!IsInsideImage(xi, yi, image)) continue;
GraySkipOutside ==
    /\ GrayCell
    /\ ~IsInsideInnerBorder(xb, yb, LengthBits)
    /\ ~IsInsideImage(GrayPx, image)
    /\ GrayAdvance
    /\ UNCHANGED <<corners, image, thr, dimension_bits, black_border, pc,
                   model, code, ret>>
    /\ UNCHANGED svars

\* The cell is sampled and its luminance added as a white or a black
\* observation (or as neither).
GrayObserve ==
    /\ GrayCell
    /\ ~IsInsideInnerBorder(xb, yb, LengthBits)
    /\ IsInsideImage(GrayPx, image)
    /\ LET v == ImageGet(image, GrayPx)
       IN  model' = IF IsOnOuterBorder(xb, yb, LengthBits)
                    THEN AddWhiteObs(model, xb, yb, v)
                    ELSE IF IsOnInnerBorder(xb, yb, LengthBits)
                    THEN AddBlackObs(model, xb, yb, v)
                    ELSE model
    /\ GrayAdvance
    /\ UNCHANGED <<corners, image, thr, dimension_bits, black_border, pc,
                   code, ret>>
    /\ UNCHANGED svars

\* Mutant: MakeGrayModel returns the model without fitting it.
GrayFitForgotten ==
    /\ pc = "gray"
    /\ yb > LengthBits
    /\ pc' = "decode"
    /\ code' = 0
    /\ yb' = dimension_bits - 1
    /\ xb' = 0
    /\ UNCHANGED <<corners, image, thr, dimension_bits, black_border, ret,
                   model>>
    /\ UNCHANGED svars

\* model.Fit(); return model; and DecodePayload starts: code = 0,
\* yb = dimension_bits - 1, xb = 0.
GrayFit ==
    /\ pc = "gray"
    /\ yb > LengthBits
    /\ model' = Fit(model)
    /\ pc' = "decode"
    /\ code' = 0
    /\ yb' = dimension_bits - 1
    /\ xb' = 0
    /\ UNCHANGED <<corners, image, thr, dimension_bits, black_border, ret>>
    /\ UNCHANGED svars

DecodeCell == pc = "decode" /\ yb >= 0
DecodePn == CellCenter(black_border + xb, black_border + yb, LengthBits)
DecodePx == SamplePixel(corners, DecodePn)

\* if (!IsInsideImage(xi, yi, image)) return 0;
DecodeOutside ==
    /\ DecodeCell
    /\ ~IsInsideImage(DecodePx, image)
    /\ ret' = 0
    /\ pc' = "done"
    /\ UNCHANGED <<corners, image, thr, dimension_bits, black_border, xb, yb,
                   model, code>>
    /\ UNCHANGED svars

\* The threshold is queried, the pixel read and the bit shifted in.
DecodeBit ==
    /\ DecodeCell
    /\ IsInsideImage(DecodePx, image)
    /\ model' = Queried(model)
    /\ code' = ShiftIn(code, ImageGet(image, DecodePx),
                       CalcThreshold(thr, DecodePn))
    /\ IF xb + 1 < dimension_bits
       THEN xb' = xb + 1 /\ yb' = yb
       ELSE xb' = 0 /\ yb' = yb - 1
    /\ UNCHANGED <<corners, image, thr, dimension_bits, black_border, pc, ret>>
    /\ UNCHANGED svars

\* return code;
DecodeReturn ==
    /\ pc = "decode"
    /\ yb < 0
    /\ ret' = code
    /\ pc' = "done"
    /\ UNCHANGED <<corners, image, thr, dimension_bits, black_border, xb, yb,
                   model, code>>
    /\ UNCHANGED svars

\* A square quad of lb by lb pixels, its first corner at (ox2, oy2) half
\* pixels: every cell is one pixel wide.
SquareQuad(ox2, oy2, lb) ==
    [i \in 0..3 |->
        CASE i = 0 -> <<ox2, oy2>>
          [] i = 1 -> <<ox2 + 2 * lb, oy2>>
          [] i = 2 -> <<ox2 + 2 * lb, oy2 + 2 * lb>>
          [] OTHER -> <<ox2, oy2 + 2 * lb>>]

\* The images: uniform, or uniform but for one pixel of the block the
\* payload of a quad at the origin falls on.
HotPixels == {1, 2} \X {1, 2}
Images ==
    {[width |-> ImgSize, height |-> ImgSize, hot |-> <<1, 1>>, fg |-> v, bg |-> v]
        : v \in {0, 1}}
    \cup {[width |-> ImgSize, height |-> ImgSize, hot |-> h, fg |-> v, bg |-> 1 - v]
            : h \in HotPixels, v \in {0, 1}}

\* First corners: far outside the image, across its left edge, at the
\* origin, and across its right edge.
OffsetsX == {-40, -5, -4, -1, 0, 3}
OffsetsY == {-1, 0}

\* No search is running.
SearchIdle ==
    /\ segs = SquareSegs
    /\ children = ChildLists({})
    /\ sched = "seq"
    /\ path = [s \in Segs |-> StartPath(s)]
    /\ quads = [s \in Segs |-> <<>>]
    /\ stack = [s \in Segs |-> <<>>]
    /\ ev = [s \in Segs |->
               [n |-> 0, depth |-> TerminalDepth, path |-> StartPath(s),
                closed |-> FALSE, appended |-> FALSE]]
    /\ touched = [s \in Segs |-> {0}]

InitDecode ==
    /\ SearchIdle
    /\ dimension_bits \in 1..MaxDim
    /\ black_border \in 1..MaxBorder
    /\ \E ox2 \in OffsetsX, oy2 \in OffsetsY :
         corners = SquareQuad(ox2, oy2, 2 * black_border + dimension_bits)
    /\ image \in Images
    /\ thr \in {"low", "high", "split"}
    /\ pc = "gray"
    /\ xb = -1
    /\ yb = -1
    /\ model = [obs |-> <<>>, fits |-> 0, calls |-> <<>>]
    /\ code = 0
    /\ ret = -1

NextDecode ==
    \/ GraySkipInner
    \/ GraySkipOutside
    \/ GrayObserve
    \/ GrayFit
    \/ DecodeOutside
    \/ DecodeBit
    \/ DecodeReturn

SpecDecode == InitDecode /\ [][NextDecode]_vars

----------------------------------------------------------------------------
(* Properties of Quad::ToTagCode *)

PayloadCells == (0..dimension_bits - 1) \X (0..dimension_bits - 1)
PayloadPn(c) == CellCenter(black_border + c[1], black_border + c[2], LengthBits)

\* The sample point rounded to the nearest integer pixel.
NearestPixel(q, pn) ==
    LET pi == Interpolate01(q, pn)
    IN  <<(2 * pi.x + pi.den) \div (2 * pi.den),
          (2 * pi.y + pi.den) \div (2 * pi.den)>>

Bit(n, k) == (n \div Pow2(k)) % 2

\* C4: when a payload sample point, rounded to the nearest integer pixel,
\* lies outside the image, DecodePayload returns the code 0.
C4_OutOfBoundsReturnsZero ==
    (/\ pc = "done"
     /\ \E c \in PayloadCells :
          ~IsInsideImage(NearestPixel(corners, PayloadPn(c)), image))
        => ret = 0

\* C5: when every payload sample is inside the image and the payload fits
\* code_t, bit yb * dimension_bits + (dimension_bits - 1 - xb) of the returned
\* code is 1 exactly when cell (xb, yb) is brighter than the threshold at its
\* normalized coordinate, and no higher bit is set.
C5_BitOrder ==
    (/\ pc = "done"
     /\ dimension_bits * dimension_bits <= CodeBits
     /\ \A c \in PayloadCells :
          IsInsideImage(SamplePixel(corners, PayloadPn(c)), image))
        => /\ ret >= 0
           /\ ret < Pow2(dimension_bits * dimension_bits)
           /\ \A c \in PayloadCells :
                Bit(ret, c[2] * dimension_bits + (dimension_bits - 1 - c[1])) = 1
                  <=> ImageGet(image, SamplePixel(corners, PayloadPn(c)))
                         > CalcThreshold(thr, PayloadPn(c))

C5_Witness ==
    /\ pc = "done"
    /\ dimension_bits = 2
    /\ \A c \in PayloadCells :
         IsInsideImage(SamplePixel(corners, PayloadPn(c)), image)
    /\ ret \in {1, 2, 4, 8}

\* C6: Fit is called once in a run of ToTagCode, after every AddWhiteObs and
\* AddBlackObs and before every threshold query, and no boundary cell gives
\* more than one observation.
C6_FitOnceBetweenObsAndQueries ==
    LET c == model.calls
        fitAt == {i \in 1..Len(c) : c[i] = "fit"}
    IN  /\ Cardinality(fitAt) = model.fits
        /\ model.fits = (IF pc = "gray" THEN 0 ELSE 1)
        /\ \A i \in 1..Len(c), j \in 1..Len(c) :
             i < j =>
               /\ c[j] \in {"white", "black"} => c[i] \in {"white", "black"}
               /\ c[i] = "threshold" => c[j] = "threshold"
        /\ \A i \in 1..Len(model.obs), j \in 1..Len(model.obs) :
             i # j => <<model.obs[i].x, model.obs[i].y>>
                        # <<model.obs[j].x, model.obs[j].y>>

C6_Witness ==
    /\ pc = "done"
    /\ \E i \in 1..Len(model.calls) : model.calls[i] = "white"
    /\ \E i \in 1..Len(model.calls) : model.calls[i] = "black"
    /\ \E i \in 1..Len(model.calls) : model.calls[i] = "threshold"

\* The run in which every boundary sample is outside the image.
C6_NoObservationRun == pc = "done" /\ model.calls = <<"fit">>

====
